---- MODULE Spec2Model ----
(* encrypted_files_backend: collections of encrypted files shared between    *)
(* registered users.  The canister state is the two user maps, the metadata  *)
(* map, and the EncryptedMaps instance (its value map and its access-control *)
(* map).  Each update or query call is one atomic step; get_encrypted_vetkey *)
(* suspends on the management canister and is two steps.                     *)
EXTENDS Integers, Sequences, FiniteSets, TLC

VARIABLES
    users,                  \* USERS: username -> User
    principal_to_username,  \* PRINCIPAL_TO_USERNAME: Principal -> username
    access_control,         \* EncryptedMaps.key_manager.access_control: (user, key_id) -> AccessRights
    mapkey_vals,            \* EncryptedMaps.mapkey_vals: (key_id, key) -> EncryptedMapValue
    file_metadata,          \* FILE_METADATA: (owner, name, key) -> FileMetadata
    now,                    \* ic_cdk::api::time()
    pending,                \* get_encrypted_vetkey calls suspended on the vetKD call
    last,                   \* the call handled by the last step, with its reply
    pre                     \* the five maps as they were when that call started

vars == <<users, principal_to_username, access_control, mapkey_vals,
          file_metadata, now, pending, last, pre>>

-----------------------------------------------------------------------------
(* Bounds of the model *)

MaxTime == 1
MaxEntries == 3
MaxFiles == 2

(* Blob<32>: the capacity of CollectionName and FileKey *)
BlobCap == 32

-----------------------------------------------------------------------------
(* Values *)

NoneVal == [some |-> FALSE]
Some(v) == [some |-> TRUE, val |-> v]

Ok(v) == [kind |-> "ok", val |-> v]
Err(e) == [kind |-> "err", err |-> e]
Await == [kind |-> "await"]

(* the call panicked: the message is rejected and its writes are discarded *)
Trap == [kind |-> "trap"]

(* the reply of a method whose return type is not a Result *)
Value(v) == [kind |-> "value", val |-> v]

OptZipNone(a, b) == NoneVal

(* Option::zip *)
OptZip(a, b) == IF a.some /\ b.some THEN Some(<<a.val, b.val>>) ELSE NoneVal

Principals == {1, 2}
Usernames == {"alice", "bob"}

TooLong == [i \in 1..(BlobCap + 1) |-> 1]
Keys == {<<1>>, <<2>>}

Rights == {"Read", "ReadWrite", "ReadWriteManage"}

(* the arguments of an upload other than the collection and the file id *)
InputA ==
    [data |-> "c1", filename |-> "a.txt", content_type |-> "text/plain",
     file_size |-> 10, tags |-> <<>>, description |-> NoneVal]
InputB ==
    [data |-> "c2", filename |-> "b.txt", content_type |-> "image/png",
     file_size |-> 20, tags |-> <<"t">>, description |-> Some("d")]
UploadInputs == {InputA, InputB}

(* what a caller uploads under a file id: the two callers send different      *)
(* contents for the same id, and a caller sends different contents for the    *)
(* two ids                                                                    *)
UploadInputOf(caller, file_id) ==
    IF (caller = 1) = (file_id = <<2>>) THEN InputB ELSE InputA

NoInput == [data |-> "", filename |-> "", content_type |-> "", file_size |-> 0,
            tags |-> <<>>, description |-> NoneVal]

-----------------------------------------------------------------------------
(* Maps *)

EmptyMap == [x \in {} |-> 0]
Has(m, k) == k \in DOMAIN m
Get(m, k) == IF k \in DOMAIN m THEN Some(m[k]) ELSE NoneVal
Put(m, k, v) == [x \in (DOMAIN m) \cup {k} |-> IF x = k THEN v ELSE m[x]]
Del(m, k) == [x \in (DOMAIN m) \ {k} |-> m[x]]

(* Ord of Blob<N>: lexicographic on the bytes *)
RECURSIVE BlobLess(_, _)
BlobLess(a, b) ==
    IF Len(b) = 0 THEN FALSE
    ELSE IF Len(a) = 0 THEN TRUE
    ELSE IF Head(a) /= Head(b) THEN Head(a) < Head(b)
    ELSE BlobLess(Tail(a), Tail(b))

(* the blobs of S in ascending order, as a BTreeMap range yields them *)
RECURSIVE Ascending(_)
Ascending(S) ==
    IF S = {} THEN <<>>
    ELSE LET m == CHOOSE x \in S : \A y \in S \ {x} : BlobLess(x, y)
         IN <<m>> \o Ascending(S \ {m})

-----------------------------------------------------------------------------
(* Records *)

User_new(username, principal, display_name) ==
    [username |-> username, principal |-> principal,
     display_name |-> display_name, created_at |-> now]

FileMetadata_new(filename, content_type, file_size, caller, tags, description) ==
    [filename |-> filename, content_type |-> content_type, file_size |-> file_size,
     creation_date |-> now, last_modification_date |-> now,
     uploaded_by |-> caller, tags |-> tags, description |-> description]

FileMetadata_update(self, filename, tags, description) ==
    [filename |-> filename, creation_date |-> self.creation_date,
     last_modification_date |-> now, uploaded_by |-> self.uploaded_by,
     content_type |-> self.content_type, file_size |-> self.file_size,
     tags |-> tags, description |-> description]

bytebuf_to_blob(buf) ==
    IF Len(buf) <= BlobCap THEN Ok(buf) ELSE Err("too large input")

-----------------------------------------------------------------------------
(* EncryptedMaps and its KeyManager (ic_vetkeys), as the canister uses them *)

can_read(r) == r \in Rights
can_write(r) == r \in {"ReadWrite", "ReadWriteManage"}
can_set_user_rights(r) == r = "ReadWriteManage"

user_rights(user, key_id) ==
    IF user = key_id[1] THEN Some("ReadWriteManage")
    ELSE Get(access_control, <<user, key_id>>)

ensure_user_can_read(user, key_id) ==
    LET r == user_rights(user, key_id)
    IN IF r.some /\ can_read(r.val) THEN Ok(r.val) ELSE Err("unauthorized")

ensure_user_can_write(user, key_id) ==
    LET r == user_rights(user, key_id)
    IN IF r.some /\ can_write(r.val) THEN Ok(r.val) ELSE Err("unauthorized")

ensure_user_can_set_user_rights(user, key_id) ==
    LET r == user_rights(user, key_id)
    IN IF r.some /\ can_set_user_rights(r.val) THEN Ok(r.val) ELSE Err("unauthorized")

(* each returns [res |-> the Result, st |-> the map afterwards] *)
insert_encrypted_value(caller, key_id, key, value) ==
    IF ensure_user_can_write(caller, key_id).kind = "err"
    THEN [res |-> Err("unauthorized"), st |-> mapkey_vals]
    ELSE [res |-> Ok(Get(mapkey_vals, <<key_id, key>>)),
          st |-> Put(mapkey_vals, <<key_id, key>>, value)]

remove_encrypted_value(caller, key_id, key) ==
    IF ensure_user_can_write(caller, key_id).kind = "err"
    THEN [res |-> Err("unauthorized"), st |-> mapkey_vals]
    ELSE [res |-> Ok(Get(mapkey_vals, <<key_id, key>>)),
          st |-> Del(mapkey_vals, <<key_id, key>>)]

get_encrypted_values_for_map(caller, key_id) ==
    IF ensure_user_can_read(caller, key_id).kind = "err"
    THEN Err("unauthorized")
    ELSE LET ks == Ascending({x[2] : x \in {y \in DOMAIN mapkey_vals : y[1] = key_id}})
         IN Ok([i \in 1..Len(ks) |-> <<ks[i], mapkey_vals[<<key_id, ks[i]>>]>>])

set_user_rights(caller, key_id, user, access_rights) ==
    IF ensure_user_can_set_user_rights(caller, key_id).kind = "err"
    THEN [res |-> Err("unauthorized"), st |-> access_control]
    ELSE IF caller = key_id[1] /\ caller = user
    THEN [res |-> Err("cannot change key owner's user rights"), st |-> access_control]
    ELSE [res |-> Ok(Get(access_control, <<user, key_id>>)),
          st |-> Put(access_control, <<user, key_id>>, access_rights)]

remove_user(caller, key_id, user) ==
    IF ensure_user_can_set_user_rights(caller, key_id).kind = "err"
    THEN [res |-> Err("unauthorized"), st |-> access_control]
    ELSE IF caller = user /\ caller = key_id[1]
    THEN [res |-> Err("cannot remove key owner"), st |-> access_control]
    ELSE [res |-> Ok(Get(access_control, <<user, key_id>>)),
          st |-> Del(access_control, <<user, key_id>>)]

(* Ord of a map id (Principal, Blob<32>) *)
KeyIdLess(a, b) == a[1] < b[1] \/ (a[1] = b[1] /\ BlobLess(a[2], b[2]))

(* the map ids the user holds a grant on, in the order of the access-control map *)
RECURSIVE AscendingKeyIds(_)
AscendingKeyIds(S) ==
    IF S = {} THEN <<>>
    ELSE LET m == CHOOSE x \in S : \A y \in S \ {x} : KeyIdLess(x, y)
         IN <<m>> \o AscendingKeyIds(S \ {m})

get_accessible_shared_map_names(user) ==
    AscendingKeyIds({x[2] : x \in {y \in DOMAIN access_control : y[1] = user}})

(* the names of the caller's maps that hold a value; they are collected in a   *)
(* hash set, so the reply lists each name once, in no particular order         *)
get_owned_non_empty_map_names(caller) ==
    {x[1][2] : x \in {y \in DOMAIN mapkey_vals : y[1][1] = caller}}

-----------------------------------------------------------------------------
(* The canister's calls.  Each gives the reply and the maps afterwards. *)

Snapshot ==
    [users |-> users, principal_to_username |-> principal_to_username,
     access_control |-> access_control, mapkey_vals |-> mapkey_vals,
     file_metadata |-> file_metadata]

(* a call that replies res and writes nothing *)
Reply(res) ==
    [res |-> res, users |-> users, principal_to_username |-> principal_to_username,
     access_control |-> access_control, mapkey_vals |-> mapkey_vals,
     file_metadata |-> file_metadata]

register_user_partial(caller, username, display_name) ==
    LET user == User_new(username, caller, display_name)
    IN IF Has(users, username)
       THEN Reply(Err("Username already exists"))
       ELSE IF Has(principal_to_username, caller)
       THEN [Reply(Err("User already registered with different username"))
             EXCEPT !.users = Put(users, username, user)]
       ELSE [Reply(Ok(user)) EXCEPT
                !.users = Put(users, username, user),
                !.principal_to_username = Put(principal_to_username, caller, username)]

register_user_any_identity(caller, username, display_name) ==
    LET user == User_new(username, caller, display_name)
    IN IF Has(users, username)
       THEN Reply(Err("Username already exists"))
       ELSE [Reply(Ok(user)) EXCEPT
                !.users = Put(users, username, user),
                !.principal_to_username = Put(principal_to_username, caller, username)]

register_user_overwrites(caller, username, display_name) ==
    IF Has(principal_to_username, caller)
    THEN Reply(Err("User already registered with different username"))
    ELSE LET user == User_new(username, caller, display_name)
         IN [Reply(Ok(user)) EXCEPT
                !.users = Put(users, username, user),
                !.principal_to_username = Put(principal_to_username, caller, username)]

register_user(caller, username, display_name) ==
    IF Has(users, username)
    THEN Reply(Err("Username already exists"))
    ELSE IF Has(principal_to_username, caller)
    THEN Reply(Err("User already registered with different username"))
    ELSE LET user == User_new(username, caller, display_name)
         IN [Reply(Ok(user)) EXCEPT
                !.users = Put(users, username, user),
                !.principal_to_username = Put(principal_to_username, caller, username)]

upload_metadata_value_always_new(existing, caller, inp) ==
    FileMetadata_new(inp.filename, inp.content_type, inp.file_size, caller,
                     inp.tags, inp.description)

(* the metadata stored by an upload: the old record updated, or a new one *)
upload_metadata_value(existing, caller, inp) ==
    IF existing.some
    THEN FileMetadata_update(existing.val, inp.filename, inp.tags, inp.description)
    ELSE FileMetadata_new(inp.filename, inp.content_type, inp.file_size, caller,
                          inp.tags, inp.description)

(* metadata.insert(metadata_key, metadata_value): the map afterwards *)
metadata_insert_nothing(metadata_key, metadata_value) == file_metadata

metadata_insert(metadata_key, metadata_value) ==
    Put(file_metadata, metadata_key, metadata_value)

(* metadata.remove(&metadata_key): the map afterwards *)
metadata_remove_nothing(metadata_key) == file_metadata

metadata_remove(metadata_key) == Del(file_metadata, metadata_key)

(* the caller whose rights insert_encrypted_value checks *)
upload_caller_is_owner(caller, collection_owner) == collection_owner

upload_caller(caller, collection_owner) == caller

upload_file_to_collection(caller, collection_owner, collection_name, file_id, inp) ==
    LET name_blob == bytebuf_to_blob(collection_name)
        file_key == bytebuf_to_blob(file_id)
    IN IF name_blob.kind = "err" THEN Reply(name_blob)
       ELSE IF file_key.kind = "err" THEN Reply(file_key)
       ELSE LET collection_id == <<collection_owner, name_blob.val>>
                ins == insert_encrypted_value(upload_caller(caller, collection_owner),
                                              collection_id, file_key.val, inp.data)
                metadata_key == <<collection_owner, name_blob.val, file_key.val>>
                metadata_value ==
                    upload_metadata_value(Get(file_metadata, metadata_key), caller, inp)
            IN IF ins.res.kind = "err" THEN Reply(ins.res)
               ELSE [Reply(Ok(OptZip(ins.res.val, Get(file_metadata, metadata_key))))
                     EXCEPT !.mapkey_vals = ins.st,
                            !.file_metadata = metadata_insert(metadata_key, metadata_value)]

remove_previous_after(opt_prev_value, metadata_key) ==
    OptZip(opt_prev_value, Get(Del(file_metadata, metadata_key), metadata_key))

(* opt_prev_value.zip(metadata.remove(&metadata_key)): the pair replied *)
remove_previous(opt_prev_value, metadata_key) ==
    OptZip(opt_prev_value, Get(file_metadata, metadata_key))

remove_file_from_collection_keeps_value(caller, collection_owner, collection_name, file_id) ==
    LET name_blob == bytebuf_to_blob(collection_name)
        file_key == bytebuf_to_blob(file_id)
    IN IF name_blob.kind = "err" THEN Reply(name_blob)
       ELSE IF file_key.kind = "err" THEN Reply(file_key)
       ELSE LET collection_id == <<collection_owner, name_blob.val>>
                rem == remove_encrypted_value(caller, collection_id, file_key.val)
                metadata_key == <<collection_owner, name_blob.val, file_key.val>>
            IN IF rem.res.kind = "err" THEN Reply(rem.res)
               ELSE [Reply(Ok(remove_previous(rem.res.val, metadata_key)))
                     EXCEPT !.file_metadata = metadata_remove(metadata_key)]

remove_file_from_collection_drops_grants(caller, collection_owner, collection_name, file_id) ==
    LET name_blob == bytebuf_to_blob(collection_name)
        file_key == bytebuf_to_blob(file_id)
    IN IF name_blob.kind = "err" THEN Reply(name_blob)
       ELSE IF file_key.kind = "err" THEN Reply(file_key)
       ELSE LET collection_id == <<collection_owner, name_blob.val>>
                rem == remove_encrypted_value(caller, collection_id, file_key.val)
                metadata_key == <<collection_owner, name_blob.val, file_key.val>>
                grants == { x \in DOMAIN access_control : x[2] /= collection_id }
            IN IF rem.res.kind = "err" THEN Reply(rem.res)
               ELSE [Reply(Ok(remove_previous(rem.res.val, metadata_key)))
                     EXCEPT !.mapkey_vals = rem.st,
                            !.file_metadata = metadata_remove(metadata_key),
                            !.access_control =
                                IF \E x \in DOMAIN rem.st : x[1] = collection_id
                                THEN access_control
                                ELSE [x \in grants |-> access_control[x]]]

remove_file_from_collection(caller, collection_owner, collection_name, file_id) ==
    LET name_blob == bytebuf_to_blob(collection_name)
        file_key == bytebuf_to_blob(file_id)
    IN IF name_blob.kind = "err" THEN Reply(name_blob)
       ELSE IF file_key.kind = "err" THEN Reply(file_key)
       ELSE LET collection_id == <<collection_owner, name_blob.val>>
                rem == remove_encrypted_value(caller, collection_id, file_key.val)
                metadata_key == <<collection_owner, name_blob.val, file_key.val>>
            IN IF rem.res.kind = "err" THEN Reply(rem.res)
               ELSE [Reply(Ok(remove_previous(rem.res.val, metadata_key)))
                     EXCEPT !.mapkey_vals = rem.st,
                            !.file_metadata = metadata_remove(metadata_key)]

share_collection_with_user(caller, collection_name, username, access_rights) ==
    LET name_blob == bytebuf_to_blob(collection_name)
    IN IF ~Has(users, username) THEN Reply(Err("User not found"))
       ELSE IF name_blob.kind = "err" THEN Reply(name_blob)
       ELSE LET set == set_user_rights(caller, <<caller, name_blob.val>>,
                                       users[username].principal, access_rights)
            IN [Reply(set.res) EXCEPT !.access_control = set.st]

remove_user_from_collection_leaves(caller, collection_name, username) ==
    LET name_blob == bytebuf_to_blob(collection_name)
    IN IF ~Has(users, username) THEN Reply(Err("User not found"))
       ELSE IF name_blob.kind = "err" THEN Reply(name_blob)
       ELSE LET rem == remove_user(caller,
                                   <<users[username].principal, name_blob.val>>,
                                   caller)
            IN [Reply(rem.res) EXCEPT !.access_control = rem.st]

remove_user_from_collection_keeps(caller, collection_name, username) ==
    LET name_blob == bytebuf_to_blob(collection_name)
    IN IF ~Has(users, username) THEN Reply(Err("User not found"))
       ELSE IF name_blob.kind = "err" THEN Reply(name_blob)
       ELSE Reply(remove_user(caller, <<caller, name_blob.val>>,
                              users[username].principal).res)

remove_user_from_collection(caller, collection_name, username) ==
    LET name_blob == bytebuf_to_blob(collection_name)
    IN IF ~Has(users, username) THEN Reply(Err("User not found"))
       ELSE IF name_blob.kind = "err" THEN Reply(name_blob)
       ELSE LET rem == remove_user(caller, <<caller, name_blob.val>>,
                                   users[username].principal)
            IN [Reply(rem.res) EXCEPT !.access_control = rem.st]

zip_metadata_values_reversed(iter_metadata, map_values) ==
    LET n == IF Len(iter_metadata) <= Len(map_values)
             THEN Len(iter_metadata) ELSE Len(map_values)
    IN [i \in 1..n |->
          <<iter_metadata[i][1], map_values[n + 1 - i][2], iter_metadata[i][2]>>]

zip_metadata_values_descending(iter_metadata, map_values) ==
    LET n == IF Len(iter_metadata) <= Len(map_values)
             THEN Len(iter_metadata) ELSE Len(map_values)
    IN [i \in 1..n |-> <<iter_metadata[n + 1 - i][1], map_values[n + 1 - i][2],
                         iter_metadata[n + 1 - i][2]>>]

(* zip of the metadata range with the values of the map, in that order *)
zip_metadata_values(iter_metadata, map_values) ==
    LET n == IF Len(iter_metadata) <= Len(map_values)
             THEN Len(iter_metadata) ELSE Len(map_values)
    IN [i \in 1..n |-> <<iter_metadata[i][1], map_values[i][2], iter_metadata[i][2]>>]

(* metadata.range((owner, name, Blob::default())..).take_while(same owner, name) *)
metadata_range(collection_owner, collection_name) ==
    LET ks == Ascending({x[3] : x \in {y \in DOMAIN file_metadata :
                            y[1] = collection_owner /\ y[2] = collection_name}})
    IN [i \in 1..Len(ks) |->
           <<ks[i], file_metadata[<<collection_owner, collection_name, ks[i]>>]>>]

(* as built without debug assertions (release): debug_assert_eq! is compiled out *)
get_files_in_collection_with_metadata(caller, collection_owner, collection_name) ==
    LET name_blob == bytebuf_to_blob(collection_name)
    IN IF name_blob.kind = "err" THEN Reply(name_blob)
       ELSE LET values == get_encrypted_values_for_map(caller,
                              <<collection_owner, name_blob.val>>)
                iter_metadata == metadata_range(collection_owner, name_blob.val)
            IN IF values.kind = "err" THEN Reply(values)
               ELSE Reply(Ok(zip_metadata_values(iter_metadata, values.val)))

(* debug_assert_eq!(key_left, key_right) fails on one of the zipped pairs *)
debug_assert_fails(iter_metadata, map_values) ==
    \E i \in 1..Len(zip_metadata_values(iter_metadata, map_values)) :
        iter_metadata[i][1] /= map_values[i][1]

(* as built with debug assertions *)
get_files_in_collection_with_metadata_debug(caller, collection_owner, collection_name) ==
    LET name_blob == bytebuf_to_blob(collection_name)
    IN IF name_blob.kind = "err" THEN Reply(name_blob)
       ELSE LET values == get_encrypted_values_for_map(caller,
                              <<collection_owner, name_blob.val>>)
                iter_metadata == metadata_range(collection_owner, name_blob.val)
            IN IF values.kind = "err" THEN Reply(values)
               ELSE IF debug_assert_fails(iter_metadata, values.val) THEN Reply(Trap)
               ELSE Reply(Ok(zip_metadata_values(iter_metadata, values.val)))

get_encrypted_vetkey_unchecked(caller, collection_owner, collection_name) ==
    LET name_blob == bytebuf_to_blob(collection_name)
    IN IF name_blob.kind = "err" THEN Reply(name_blob) ELSE Reply(Await)

(* the first half of get_encrypted_vetkey, up to the await *)
get_encrypted_vetkey(caller, collection_owner, collection_name) ==
    LET name_blob == bytebuf_to_blob(collection_name)
    IN IF name_blob.kind = "err" THEN Reply(name_blob)
       ELSE IF ensure_user_can_read(caller, <<collection_owner, name_blob.val>>).kind = "err"
       THEN Reply(Err("unauthorized"))
       ELSE Reply(Await)

get_encrypted_vetkey_resume_rechecks(p) ==
    IF ensure_user_can_read(p.caller, p.key_id).kind = "err"
    THEN Reply(Err("unauthorized"))
    ELSE Reply(Ok([vetkey_for |-> p.key_id, caller |-> p.caller]))

(* the second half of get_encrypted_vetkey: the awaited key is replied *)
get_encrypted_vetkey_resume(p) ==
    Reply(Ok([vetkey_for |-> p.key_id, caller |-> p.caller]))

get_user_by_username(username) == Reply(Value(Get(users, username)))

get_my_user_profile(caller) ==
    LET username == Get(principal_to_username, caller)
    IN Reply(Value(IF username.some THEN Get(users, username.val) ELSE NoneVal))

get_accessible_shared_collections_as_caller(caller) ==
    LET map_ids == get_accessible_shared_map_names(caller)
    IN Reply(Value([i \in 1..Len(map_ids) |-> <<caller, map_ids[i][2]>>]))

get_accessible_shared_collections(caller) ==
    LET map_ids == get_accessible_shared_map_names(caller)
    IN Reply(Value([i \in 1..Len(map_ids) |-> <<map_ids[i][1], map_ids[i][2]>>]))

get_my_collections(caller) == Reply(Value(get_owned_non_empty_map_names(caller)))

-----------------------------------------------------------------------------
(* The steps *)

Call(op, caller, owner, name, key, user, inp) ==
    [op |-> op, caller |-> caller, owner |-> owner, name |-> name, key |-> key,
     user |-> user, inp |-> inp]

Idle == [call |-> Call("idle", 0, 0, <<>>, <<>>, "", NoInput), res |-> Await]
NoSnapshot ==
    [users |-> EmptyMap, principal_to_username |-> EmptyMap,
     access_control |-> EmptyMap, mapkey_vals |-> EmptyMap,
     file_metadata |-> EmptyMap]

Entries(r, p) ==
    Cardinality(DOMAIN r.users) + Cardinality(DOMAIN r.access_control)
        + Cardinality(DOMAIN r.mapkey_vals) + Cardinality(p)

(* one message execution: the maps become r's, the reply is r.res *)
Execute(call, r, p) ==
    /\ last = Idle
    /\ Entries(r, p) <= MaxEntries
    /\ Cardinality(DOMAIN r.mapkey_vals) <= MaxFiles
    /\ users' = r.users
    /\ principal_to_username' = r.principal_to_username
    /\ access_control' = r.access_control
    /\ mapkey_vals' = r.mapkey_vals
    /\ file_metadata' = r.file_metadata
    /\ pending' = p
    /\ last' = [call |-> call, res |-> r.res]
    /\ pre' = Snapshot
    /\ UNCHANGED now

Init ==
    /\ users = EmptyMap
    /\ principal_to_username = EmptyMap
    /\ access_control = EmptyMap
    /\ mapkey_vals = EmptyMap
    /\ file_metadata = EmptyMap
    /\ now = 0
    /\ pending = {}
    /\ last = Idle
    /\ pre = NoSnapshot

(* the replicated clock moves on between messages *)
Tick ==
    /\ last = Idle
    /\ now < MaxTime
    /\ now' = now + 1
    /\ UNCHANGED <<users, principal_to_username, access_control, mapkey_vals,
                   file_metadata, pending, last, pre>>

(* the message execution is over and the next message may start *)
EndMessage ==
    /\ last /= Idle
    /\ last' = Idle
    /\ pre' = NoSnapshot
    /\ UNCHANGED <<users, principal_to_username, access_control, mapkey_vals,
                   file_metadata, now, pending>>

RegisterRequests ==
    { <<1, "alice", Some("Al")>>, <<2, "bob", NoneVal>>,
      <<2, "alice", NoneVal>>, <<1, "bob", Some("Al")>> }

Register ==
    \E q \in RegisterRequests :
        Execute(Call("register_user", q[1], 0, <<>>, <<>>, q[2], NoInput),
                register_user(q[1], q[2], q[3]), pending)

(* the collections and files the calls address; TooLong is over the capacity *)
CollectionArgs ==
    { <<1, <<1>>>>, <<1, <<2>>>>, <<2, <<1>>>>, <<1, TooLong>> }
FileArgs ==
    { <<1, <<1>>, <<1>>>>, <<1, <<1>>, <<2>>>>, <<1, <<2>>, <<1>>>>,
      <<2, <<1>>, <<1>>>>, <<1, TooLong, <<1>>>>, <<1, <<1>>, TooLong>> }
ShareNames == { <<1>>, TooLong }

Upload ==
    \E c \in Principals, f \in FileArgs, inp \in UploadInputs :
        /\ inp = UploadInputOf(c, f[3])
        /\ Execute(Call("upload_file_to_collection", c, f[1], f[2], f[3], "", inp),
                upload_file_to_collection(c, f[1], f[2], f[3], inp), pending)

Remove ==
    \E c \in Principals, f \in FileArgs :
        Execute(Call("remove_file_from_collection", c, f[1], f[2], f[3], "", NoInput),
                remove_file_from_collection(c, f[1], f[2], f[3]), pending)

Share ==
    \E c \in Principals, n \in ShareNames, u \in Usernames, a \in Rights :
        Execute(Call("share_collection_with_user", c, c, n, <<>>, u,
                     [NoInput EXCEPT !.data = a]),
                share_collection_with_user(c, n, u, a), pending)

Unshare ==
    \E c \in Principals, n \in ShareNames, u \in Usernames :
        Execute(Call("remove_user_from_collection", c, c, n, <<>>, u, NoInput),
                remove_user_from_collection(c, n, u), pending)

(* the canister is built with or without debug assertions *)
List ==
    \E c \in Principals, k \in CollectionArgs, debug_assertions \in BOOLEAN :
        Execute(Call("get_files_in_collection_with_metadata", c, k[1], k[2], <<>>, "",
                     NoInput),
                IF debug_assertions
                THEN get_files_in_collection_with_metadata_debug(c, k[1], k[2])
                ELSE get_files_in_collection_with_metadata(c, k[1], k[2]),
                pending)

(* get_encrypted_vetkey up to its await: it replies an error, or it suspends *)
VetkeyStart ==
    \E c \in Principals, k \in CollectionArgs :
        LET r == get_encrypted_vetkey(c, k[1], k[2])
        IN Execute(Call("get_encrypted_vetkey", c, k[1], k[2], <<>>, "", NoInput), r,
                   IF r.res = Await
                   THEN pending \cup {[caller |-> c, key_id |-> <<k[1], k[2]>>]}
                   ELSE pending)

(* the vetKD call returns and the suspended call replies the key *)
VetkeyDone ==
    \E p \in pending :
        Execute(Call("get_encrypted_vetkey", p.caller, p.key_id[1], p.key_id[2], <<>>,
                     "", NoInput),
                get_encrypted_vetkey_resume(p), pending \ {p})

UserByUsername ==
    \E c \in Principals, u \in Usernames :
        Execute(Call("get_user_by_username", c, 0, <<>>, <<>>, u, NoInput),
                get_user_by_username(u), pending)

MyUserProfile ==
    \E c \in Principals :
        Execute(Call("get_my_user_profile", c, 0, <<>>, <<>>, "", NoInput),
                get_my_user_profile(c), pending)

SharedCollections ==
    \E c \in Principals :
        Execute(Call("get_accessible_shared_collections", c, 0, <<>>, <<>>, "", NoInput),
                get_accessible_shared_collections(c), pending)

MyCollections ==
    \E c \in Principals :
        Execute(Call("get_my_collections", c, 0, <<>>, <<>>, "", NoInput),
                get_my_collections(c), pending)

Next ==
    \/ Tick
    \/ EndMessage
    \/ Register
    \/ Upload
    \/ Remove
    \/ Share
    \/ Unshare
    \/ List
    \/ VetkeyStart
    \/ VetkeyDone
    \/ UserByUsername
    \/ MyUserProfile
    \/ SharedCollections
    \/ MyCollections

Spec == Init /\ [][Next]_vars

-----------------------------------------------------------------------------
(* The pairing of list as a function of the contents of the two stores: the    *)
(* value map and the metadata map of the collection (1, <<1>>) hold any keys,  *)
(* the same or not, and list is called on them.                                *)

PairingValues ==
    { [x \in S |-> IF x[2] = <<1>> THEN "c1" ELSE "c2"] :
        S \in SUBSET { <<<<1, <<1>>>>, k>> : k \in Keys } }

PairingMetadata ==
    { [x \in S |->
          [filename |-> IF x[3] = <<1>> THEN "a.txt" ELSE "b.txt",
           content_type |-> "text/plain", file_size |-> 10, creation_date |-> 0,
           last_modification_date |-> 0, uploaded_by |-> 1, tags |-> <<>>,
           description |-> NoneVal]] :
        S \in SUBSET { <<1, <<1>>, k>> : k \in Keys } }

InitPairing ==
    /\ users = EmptyMap
    /\ principal_to_username = EmptyMap
    /\ access_control \in { EmptyMap } \cup
          { [x \in { <<2, <<1, <<1>>>>>> } |-> a] : a \in Rights }
    /\ mapkey_vals \in PairingValues
    /\ file_metadata \in PairingMetadata
    /\ now = 0
    /\ pending = {}
    /\ last = Idle
    /\ pre = NoSnapshot

NextPairing ==
    \/ List
    \/ EndMessage

SpecPairing == InitPairing /\ [][NextPairing]_vars

-----------------------------------------------------------------------------
(* The statements *)

Op == last.call.op
Caller == last.call.caller
Replied == last /= Idle
CalledCollection == <<last.call.owner, last.call.name>>
CalledFile == <<last.call.owner, last.call.name, last.call.key>>
FileOps == {"upload_file_to_collection", "remove_file_from_collection"}
ShareOps == {"share_collection_with_user", "remove_user_from_collection"}

(* the composite keys of the value map, written as the metadata map writes them *)
ValueKeys == { <<x[1][1], x[1][2], x[2]>> : x \in DOMAIN mapkey_vals }

(* C1: in every reachable state, also while a get_encrypted_vetkey call is      *)
(* suspended, the metadata map has a record at (owner, name, file_key) if and  *)
(* only if the value map has a value at that key.                               *)
C1_MetadataIffValue == DOMAIN file_metadata = ValueKeys

C1_Witness ==
    /\ pending /= {}
    /\ Op = "remove_file_from_collection"
    /\ last.res.kind = "ok"
    /\ last.res.val.some
    /\ DOMAIN file_metadata /= {}

(* user holds a Read grant, and nothing more, on a collection of somebody else *)
ReadOnly(ac, user, key_id) ==
    user /= key_id[1] /\ Get(ac, <<user, key_id>>) = Some("Read")

(* the collections of other owners that a call by Caller names *)
C2_Named ==
    IF Op \in FileOps THEN {CalledCollection}
    ELSE IF Op \in ShareOps
    THEN { <<o, last.call.name>> : o \in Principals \ {Caller} }
    ELSE {}

(* C2 as stated: a grant, revoke, upload or remove call by a caller who holds   *)
(* only Read on the collection it names is answered with an error.              *)
C2_ReadOnlyAlwaysDenied ==
    \A k \in C2_Named :
        ReadOnly(pre.access_control, Caller, k) => last.res.kind = "err"

(* the grants on the collections owned by somebody other than c *)
GrantsOfOthers(ac, c) == { x \in DOMAIN ac : x[2][1] /= c }

(* C2, amended: an upload or remove by a caller who holds only Read on the      *)
(* collection is answered "unauthorized" ("too large input" when the file id   *)
(* is over 32 bytes) and writes nothing; a share or unshare call by any caller  *)
(* acts on the caller's own collection of that name and is never answered      *)
(* "unauthorized", and leaves every grant on other owners' collections as it   *)
(* was.                                                                         *)
C2_ReadOnlyCannotWrite ==
    /\ (Op \in FileOps /\ ReadOnly(pre.access_control, Caller, CalledCollection))
          => /\ last.res = IF Len(last.call.key) > BlobCap
                           THEN Err("too large input") ELSE Err("unauthorized")
             /\ Snapshot = pre
    /\ \A c \in Principals, n \in ShareNames, u \in Usernames :
          /\ \A a \in Rights :
                LET r == share_collection_with_user(c, n, u, a)
                IN /\ r.res /= Err("unauthorized")
                   /\ \A x \in GrantsOfOthers(access_control, c)
                              \cup GrantsOfOthers(r.access_control, c) :
                         Get(r.access_control, x) = Get(access_control, x)
          /\ LET r == remove_user_from_collection(c, n, u)
             IN /\ r.res /= Err("unauthorized")
                /\ \A x \in GrantsOfOthers(access_control, c)
                           \cup GrantsOfOthers(r.access_control, c) :
                      Get(r.access_control, x) = Get(access_control, x)

C2_Witness ==
    /\ Op = "upload_file_to_collection"
    /\ ReadOnly(pre.access_control, Caller, CalledCollection)
    /\ last.res = Err("unauthorized")
    /\ \E x \in DOMAIN mapkey_vals : x[1] = CalledCollection

(* the principal a share or unshare call names by its username *)
NamedPrincipal == pre.users[last.call.user].principal

(* every upload and remove by b on the collection is refused and writes nothing *)
AllRefused(b, key_id) ==
    \A k \in Keys :
        /\ \A inp \in UploadInputs :
              upload_file_to_collection(b, key_id[1], key_id[2], k, inp)
                  = Reply(Err("unauthorized"))
        /\ remove_file_from_collection(b, key_id[1], key_id[2], k)
              = Reply(Err("unauthorized"))

(* C3: once the owner has revoked b's grant on a collection, b holds no grant   *)
(* on it until the owner shares it with b again, and while b holds none every  *)
(* upload or remove by b on the collection is answered with an error and       *)
(* leaves the values and the metadata (and every other map) as they were.      *)
C3_RevokedIsDenied ==
    /\ (Op = "remove_user_from_collection" /\ last.res.kind = "ok")
          => /\ ~Has(access_control, <<NamedPrincipal, CalledCollection>>)
             /\ AllRefused(NamedPrincipal, CalledCollection)
    /\ (Op \in FileOps /\ Caller /= last.call.owner
            /\ ~Has(pre.access_control, <<Caller, CalledCollection>>))
          => (last.res.kind = "err" /\ Snapshot = pre)
    /\ Replied =>
          \A x \in DOMAIN access_control \ DOMAIN pre.access_control :
              Op = "share_collection_with_user" /\ Caller = x[2][1]

C3_Witness ==
    /\ Op = "remove_user_from_collection"
    /\ last.res.kind = "ok"
    /\ last.res.val.some
    /\ \E x \in DOMAIN mapkey_vals : x[1] = CalledCollection
    /\ \E x \in DOMAIN file_metadata : <<x[1], x[2]>> = CalledCollection
    /\ AllRefused(NamedPrincipal, CalledCollection)

(* C4: a call answered with an error leaves the username map, the identity     *)
(* map, the grants, the value map and the metadata map as they were.            *)
C4_ErrorWritesNothing ==
    (Replied /\ last.res.kind = "err") => Snapshot = pre

C4_Witness ==
    /\ Op = "register_user"
    /\ last.res = Err("User already registered with different username")
    /\ ~Has(users, last.call.user)
    /\ DOMAIN mapkey_vals /= {}

(* C5: share and unshare act on the collection (caller, collection_name): a     *)
(* call changes a grant only when it is a share or unshare made by the owner   *)
(* of the collection the grant is on, whatever rights the caller holds on      *)
(* other owners' collections.                                                   *)
C5_ShareActsOnOwnCollection ==
    /\ Replied =>
          \A x \in DOMAIN access_control \cup DOMAIN pre.access_control :
              Get(access_control, x) /= Get(pre.access_control, x)
                  => (Op \in ShareOps /\ x[2] = <<Caller, last.call.name>>)
    /\ \A c \in Principals, n \in ShareNames, u \in Usernames :
          /\ \A a \in Rights :
                LET r == share_collection_with_user(c, n, u, a)
                IN \A x \in DOMAIN access_control \cup DOMAIN r.access_control :
                      Get(r.access_control, x) /= Get(access_control, x)
                          => x[2] = <<c, n>>
          /\ LET r == remove_user_from_collection(c, n, u)
             IN \A x \in DOMAIN access_control \cup DOMAIN r.access_control :
                   Get(r.access_control, x) /= Get(access_control, x)
                       => x[2] = <<c, n>>

C5_Witness ==
    /\ Op = "remove_user_from_collection"
    /\ last.res = Ok(NoneVal)
    /\ \E o \in Principals \ {Caller} :
          /\ Get(pre.access_control, <<Caller, <<o, last.call.name>>>>)
                = Some("ReadWriteManage")
          /\ NamedPrincipal = o
    /\ access_control = pre.access_control

(* the entries of a list reply that carry the file key k *)
EntriesOf(l, k) == { i \in 1..Len(l) : l[i][1] = k }

(* the callers whose list call on the collection is answered with the list *)
Readers(key_id) ==
    { c \in Principals : ensure_user_can_read(c, key_id).kind = "ok" }

ListOf(c, key_id) ==
    get_files_in_collection_with_metadata(c, key_id[1], key_id[2]).res

SuppliedFields(m, inp) ==
    /\ m.filename = inp.filename
    /\ m.content_type = inp.content_type
    /\ m.file_size = inp.file_size
    /\ m.tags = inp.tags
    /\ m.description = inp.description

(* C6 as stated: after a successful upload, list for the collection has the     *)
(* key with the supplied ciphertext and the supplied metadata; after a         *)
(* successful remove it does not have the key.                                  *)
C6_ListHasSupplied ==
    /\ (Op = "upload_file_to_collection" /\ last.res.kind = "ok") =>
          \A c \in Readers(CalledCollection) :
              LET l == ListOf(c, CalledCollection)
              IN /\ l.kind = "ok"
                 /\ \E i \in EntriesOf(l.val, last.call.key) :
                       /\ l.val[i][2] = last.call.inp.data
                       /\ SuppliedFields(l.val[i][3], last.call.inp)
    /\ (Op = "remove_file_from_collection" /\ last.res.kind = "ok") =>
          \A c \in Readers(CalledCollection) :
              LET l == ListOf(c, CalledCollection)
              IN l.kind = "ok" /\ EntriesOf(l.val, last.call.key) = {}

(* C6, amended: after a successful upload, list for the collection, for every   *)
(* caller allowed to read it, has the key exactly once, with the supplied      *)
(* ciphertext and with the supplied filename, tags and description; the        *)
(* content type and the file size are the supplied ones when the key was       *)
(* absent and those of the record already stored when it was present.  After   *)
(* a successful remove, list does not have the key.                             *)
C6_ListHasUploaded ==
    /\ (Op = "upload_file_to_collection" /\ last.res.kind = "ok") =>
          \A c \in Readers(CalledCollection) :
              LET l == ListOf(c, CalledCollection)
                  old == Get(pre.file_metadata, CalledFile)
              IN /\ l.kind = "ok"
                 /\ Cardinality(EntriesOf(l.val, last.call.key)) = 1
                 /\ \A i \in EntriesOf(l.val, last.call.key) :
                       /\ l.val[i][2] = last.call.inp.data
                       /\ l.val[i][3].filename = last.call.inp.filename
                       /\ l.val[i][3].tags = last.call.inp.tags
                       /\ l.val[i][3].description = last.call.inp.description
                       /\ l.val[i][3].content_type =
                             IF old.some THEN old.val.content_type
                             ELSE last.call.inp.content_type
                       /\ l.val[i][3].file_size =
                             IF old.some THEN old.val.file_size
                             ELSE last.call.inp.file_size
    /\ (Op = "remove_file_from_collection" /\ last.res.kind = "ok") =>
          \A c \in Readers(CalledCollection) :
              LET l == ListOf(c, CalledCollection)
              IN l.kind = "ok" /\ EntriesOf(l.val, last.call.key) = {}

C6_Witness ==
    /\ Op = "upload_file_to_collection"
    /\ last.res.kind = "ok"
    /\ Has(pre.file_metadata, CalledFile)
    /\ pre.file_metadata[CalledFile].content_type /= last.call.inp.content_type
    /\ Cardinality(Readers(CalledCollection)) = 2

(* C7: a re-upload to a file key that has a record, by any caller allowed to    *)
(* write, keeps creation_date, uploaded_by, content_type and file_size of the  *)
(* record and replaces filename, tags, description and last_modification_date  *)
(* (by the time of the call); a first upload stores all the supplied fields,   *)
(* with uploaded_by the caller.                                                 *)
C7_ReuploadCarriesOver ==
    (Op = "upload_file_to_collection" /\ last.res.kind = "ok") =>
        LET old == Get(pre.file_metadata, CalledFile)
            new == Get(file_metadata, CalledFile)
            inp == last.call.inp
        IN /\ new.some
           /\ new.val.filename = inp.filename
           /\ new.val.tags = inp.tags
           /\ new.val.description = inp.description
           /\ new.val.last_modification_date = now
           /\ IF old.some
              THEN /\ new.val.creation_date = old.val.creation_date
                   /\ new.val.uploaded_by = old.val.uploaded_by
                   /\ new.val.content_type = old.val.content_type
                   /\ new.val.file_size = old.val.file_size
              ELSE /\ new.val.creation_date = now
                   /\ new.val.uploaded_by = Caller
                   /\ new.val.content_type = inp.content_type
                   /\ new.val.file_size = inp.file_size

C7_Witness ==
    /\ Op = "upload_file_to_collection"
    /\ last.res.kind = "ok"
    /\ Has(pre.file_metadata, CalledFile)
    /\ pre.file_metadata[CalledFile].creation_date < now
    /\ pre.file_metadata[CalledFile].uploaded_by /= Caller
    /\ pre.file_metadata[CalledFile].content_type /= last.call.inp.content_type
    /\ pre.file_metadata[CalledFile].filename /= last.call.inp.filename

(* C8: right after an upload to a key that was absent, a remove of that key     *)
(* by any caller allowed to write replies the pair of the ciphertext and the   *)
(* metadata just uploaded, and leaves the value map and the metadata map as    *)
(* they were before the upload.                                                 *)
C8_UploadThenRemove ==
    (/\ Op = "upload_file_to_collection"
     /\ last.res.kind = "ok"
     /\ ~Has(pre.mapkey_vals, <<CalledCollection, last.call.key>>)) =>
        \A c \in Principals :
            ensure_user_can_write(c, CalledCollection).kind = "ok" =>
                LET r == remove_file_from_collection(c, last.call.owner,
                                                     last.call.name, last.call.key)
                    inp == last.call.inp
                IN /\ r.res = Ok(Some(<<inp.data,
                            [filename |-> inp.filename,
                             content_type |-> inp.content_type,
                             file_size |-> inp.file_size,
                             creation_date |-> now, last_modification_date |-> now,
                             uploaded_by |-> Caller, tags |-> inp.tags,
                             description |-> inp.description]>>))
                   /\ r.mapkey_vals = pre.mapkey_vals
                   /\ r.file_metadata = pre.file_metadata

C8_Witness ==
    /\ Op = "upload_file_to_collection"
    /\ last.res = Ok(NoneVal)
    /\ ~Has(pre.mapkey_vals, <<CalledCollection, last.call.key>>)
    /\ Caller /= last.call.owner
    /\ now > 0

(* C9: every entry of a list reply pairs the ciphertext and the metadata        *)
(* record that are stored under the entry's file key in the collection.         *)
C9_ListPairsSameKey ==
    (Op = "get_files_in_collection_with_metadata" /\ last.res.kind = "ok") =>
        \A i \in 1..Len(last.res.val) :
            LET e == last.res.val[i]
            IN /\ Get(mapkey_vals, <<CalledCollection, e[1]>>) = Some(e[2])
               /\ Get(file_metadata, <<last.call.owner, last.call.name, e[1]>>)
                     = Some(e[3])

C9_Witness ==
    /\ Op = "get_files_in_collection_with_metadata"
    /\ last.res.kind = "ok"
    /\ Len(last.res.val) = 2
    /\ last.res.val[1][2] /= last.res.val[2][2]
    /\ last.res.val[1][3] /= last.res.val[2][3]

(* C10: a registration is refused when the username is taken or the caller is   *)
(* already registered; each identity has at most one username and each         *)
(* username exactly one identity; a successful registration inserts the user   *)
(* into the username map and the identity map.                                  *)
C10_RegistrationOneToOne ==
    /\ \A u \in DOMAIN users :
          /\ users[u].username = u
          /\ Get(principal_to_username, users[u].principal) = Some(u)
    /\ \A q \in DOMAIN principal_to_username :
          /\ Has(users, principal_to_username[q])
          /\ users[principal_to_username[q]].principal = q
    /\ Op = "register_user" =>
          IF Has(pre.users, last.call.user) \/ Has(pre.principal_to_username, Caller)
          THEN last.res.kind = "err" /\ Snapshot = pre
          ELSE /\ last.res.kind = "ok"
               /\ last.res.val.username = last.call.user
               /\ last.res.val.principal = Caller
               /\ users = Put(pre.users, last.call.user, last.res.val)
               /\ principal_to_username =
                     Put(pre.principal_to_username, Caller, last.call.user)

C10_Witness ==
    /\ Op = "register_user"
    /\ last.res = Err("Username already exists")
    /\ ~Has(principal_to_username, Caller)
    /\ Cardinality(DOMAIN users) = 1

(* C11: every registered user is found by its username and by its identity,    *)
(* and both lookups give the record that the registration created and         *)
(* replied: no call changes or removes a user record.                          *)
C11_LookupReturnsUser ==
    /\ \A u \in DOMAIN users :
          /\ get_user_by_username(u).res = Value(Some(users[u]))
          /\ get_my_user_profile(users[u].principal).res = Value(Some(users[u]))
    /\ Replied =>
          \A u \in DOMAIN pre.users : Get(users, u) = Some(pre.users[u])
    /\ (Op = "register_user" /\ last.res.kind = "ok") =>
          /\ Get(users, last.call.user) = Some(last.res.val)
          /\ \E q \in RegisterRequests :
                last.res.val = [username |-> last.call.user, principal |-> Caller,
                                display_name |-> q[3], created_at |-> now]
    /\ Op = "get_user_by_username" =>
          last.res = Value(Get(users, last.call.user))
    /\ Op = "get_my_user_profile" =>
          last.res = Value(IF Has(principal_to_username, Caller)
                           THEN Some(users[principal_to_username[Caller]])
                           ELSE NoneVal)

C11_Witness ==
    /\ Op = "get_my_user_profile"
    /\ last.res.val.some
    /\ last.res.val.val.principal = Caller
    /\ last.res.val.val.created_at < now
    /\ Cardinality(DOMAIN users) = 2
    /\ DOMAIN access_control /= {}

(* the collections a call can name *)
Collections == { k \in CollectionArgs : Len(k[2]) <= BlobCap }

(* the levels at which authorize(key_id, c, level) succeeds *)
Passes(c, key_id) ==
    (IF ensure_user_can_read(c, key_id).kind = "ok" THEN {"Read"} ELSE {})
    \cup (IF ensure_user_can_write(c, key_id).kind = "ok" THEN {"ReadWrite"} ELSE {})
    \cup (IF ensure_user_can_set_user_rights(c, key_id).kind = "ok"
          THEN {"ReadWriteManage"} ELSE {})

(* the levels up to r in Read < ReadWrite < ReadWriteManage *)
UpTo(r) ==
    IF r = "Read" THEN {"Read"}
    ELSE IF r = "ReadWrite" THEN {"Read", "ReadWrite"}
    ELSE Rights

(* C12: the levels at which a caller is authorized on a collection are closed   *)
(* downwards in Read < ReadWrite < ReadWriteManage: all of them for the owner, *)
(* none for a non-owner without a grant, and those up to the granted level for *)
(* a grantee.  The calls follow it: upload and remove are refused as           *)
(* unauthorized exactly when ReadWrite is not passed, list and key retrieval   *)
(* exactly when Read is not passed, so whoever may upload may list.            *)
C12_AuthorizeMonotone ==
    \A c \in Principals, k \in Collections :
        LET g == Get(access_control, <<c, k>>)
            up == upload_file_to_collection(c, k[1], k[2], <<1>>, InputA).res
            rm == remove_file_from_collection(c, k[1], k[2], <<1>>).res
            ls == get_files_in_collection_with_metadata(c, k[1], k[2]).res
            vk == get_encrypted_vetkey(c, k[1], k[2]).res
        IN /\ Passes(c, k) = IF c = k[1] THEN Rights
                             ELSE IF g.some THEN UpTo(g.val) ELSE {}
           /\ (up = Err("unauthorized")) = ("ReadWrite" \notin Passes(c, k))
           /\ (rm = Err("unauthorized")) = ("ReadWrite" \notin Passes(c, k))
           /\ (ls = Err("unauthorized")) = ("Read" \notin Passes(c, k))
           /\ (vk = Err("unauthorized")) = ("Read" \notin Passes(c, k))
           /\ up.kind = "ok" => (ls.kind = "ok" /\ vk = Await)

C12_Witness ==
    /\ Op = "upload_file_to_collection"
    /\ last.res.kind = "ok"
    /\ Caller /= last.call.owner
    /\ Get(access_control, <<Caller, CalledCollection>>) = Some("ReadWrite")
    /\ Passes(Caller, CalledCollection) = {"Read", "ReadWrite"}
    /\ \E c \in Principals \ {last.call.owner} :
          \E k \in Collections : k /= CalledCollection /\ Passes(c, k) = {}

(* the suspended call that a get_encrypted_vetkey step belongs to *)
PendingOf(call) == [caller |-> call.caller, key_id |-> <<call.owner, call.name>>]

(* C13: the vetKD service is called only for a caller that ensure_user_can_read *)
(* has just passed (the owner or a holder of a grant), a key is replied only   *)
(* to a call that was suspended on the service, and a call by a caller that is *)
(* not authorized is answered with an error without the service being called.  *)
C13_KeyOnlyToAuthorized ==
    [][ /\ \A p \in pending' \ pending :
              ensure_user_can_read(p.caller, p.key_id).kind = "ok"
        /\ (last = Idle /\ last'.call.op = "get_encrypted_vetkey") =>
              LET p == PendingOf(last'.call)
              IN \/ /\ last'.res = Await
                    /\ ensure_user_can_read(p.caller, p.key_id).kind = "ok"
                    /\ pending' = pending \cup {p}
                 \/ /\ last'.res = Ok([vetkey_for |-> p.key_id, caller |-> p.caller])
                    /\ p \in pending
                    /\ pending' = pending \ {p}
                 \/ /\ last'.res.kind = "err"
                    /\ pending' = pending
                    /\ \/ Len(p.key_id[2]) > BlobCap
                       \/ ensure_user_can_read(p.caller, p.key_id).kind = "err"
      ]_vars

C13_Witness ==
    /\ Op = "get_encrypted_vetkey"
    /\ last.res.kind = "ok"
    /\ Caller /= last.call.owner
    /\ Get(access_control, <<Caller, CalledCollection>>) = Some("Read")
    /\ PendingOf(last.call) \notin pending

(* the (owner, name) pairs of the accessible-shared-collections reply for b *)
SharedWith(b) ==
    LET l == get_accessible_shared_collections(b).res.val
    IN { l[i] : i \in 1..Len(l) }

(* C14: the accessible-shared-collections reply for b lists (a, name), once,    *)
(* exactly when a is not b and b holds a grant on (a, name): the pair is       *)
(* listed after a's share with b and is not listed after a's unshare of b.     *)
C14_SharedListing ==
    /\ \A b \in Principals :
          /\ SharedWith(b) =
                { k \in {x[2] : x \in DOMAIN access_control} :
                     k[1] /= b /\ Has(access_control, <<b, k>>) }
          /\ Len(get_accessible_shared_collections(b).res.val)
                = Cardinality(SharedWith(b))
    /\ (Op = "share_collection_with_user" /\ last.res.kind = "ok") =>
          <<Caller, last.call.name>> \in SharedWith(NamedPrincipal)
    /\ (Op = "remove_user_from_collection" /\ last.res.kind = "ok") =>
          <<Caller, last.call.name>> \notin SharedWith(NamedPrincipal)
    /\ Op = "get_accessible_shared_collections" =>
          last.res = get_accessible_shared_collections(Caller).res

C14_Witness ==
    /\ Op = "remove_user_from_collection"
    /\ last.res.kind = "ok"
    /\ last.res.val.some
    /\ Has(pre.access_control, <<NamedPrincipal, <<Caller, last.call.name>>>>)
    /\ SharedWith(NamedPrincipal) = {}

(* the names the owned-collections reply lists for c *)
OwnedBy(c) == get_my_collections(c).res.val

(* C15: the owned-collections reply for an identity lists a name exactly when   *)
(* the value map holds a key under (identity, name): the name is listed after  *)
(* an upload to the collection, and after a remove it is listed exactly when   *)
(* another key is left in the collection.                                       *)
C15_OwnedListing ==
    /\ \A c \in Principals :
          OwnedBy(c) = { k[2] : k \in { x[1] : x \in DOMAIN mapkey_vals } \cap
                                       { y \in Collections : y[1] = c } }
    /\ \A x \in DOMAIN mapkey_vals : x[1] \in Collections
    /\ (Op = "upload_file_to_collection" /\ last.res.kind = "ok") =>
          last.call.name \in OwnedBy(last.call.owner)
    /\ (Op = "remove_file_from_collection" /\ last.res.kind = "ok") =>
          (last.call.name \in OwnedBy(last.call.owner))
             = (\E x \in DOMAIN pre.mapkey_vals :
                   x[1] = CalledCollection /\ x[2] /= last.call.key)
    /\ Op = "get_my_collections" => last.res = Value(OwnedBy(Caller))

C15_Witness ==
    /\ Op = "remove_file_from_collection"
    /\ last.res.kind = "ok"
    /\ last.res.val.some
    /\ OwnedBy(last.call.owner) /= {}
    /\ last.call.name \notin OwnedBy(last.call.owner)

(* the keys of a sequence of (key, ...) entries, in its order *)
KeysOf(l) == [i \in 1..Len(l) |-> l[i][1]]

(* the two sequences that list pairs for the collection it was called on *)
ListedValues == get_encrypted_values_for_map(Caller, CalledCollection)
ListedMetadata == metadata_range(last.call.owner, last.call.name)

C17_PreviousPair ==
    (Op \in FileOps /\ last.res.kind = "ok") =>
        LET prev_value == Get(pre.mapkey_vals, <<CalledCollection, last.call.key>>)
            prev_metadata == Get(pre.file_metadata, CalledFile)
        IN /\ prev_value.some = prev_metadata.some
           /\ last.res.val = IF prev_value.some
                             THEN Some(<<prev_value.val, prev_metadata.val>>)
                             ELSE NoneVal

C17_Witness ==
    /\ Op = "upload_file_to_collection"
    /\ last.res.kind = "ok"
    /\ last.res.val.some
    /\ last.res.val.val[1] /= last.call.inp.data
    /\ last.res.val.val[2] /= file_metadata[CalledFile]
    /\ Caller /= last.call.owner

(* the collection holds no key *)
IsEmpty(key_id) == ~\E x \in DOMAIN mapkey_vals : x[1] = key_id

(* C18: the grants change only by a successful share or unshare: every other    *)
(* call (upload, remove, also the remove of a collection's last key, the       *)
(* listings, registration, key retrieval) leaves them as they were; so a grant *)
(* on a collection without keys stays, and is still there after the owner's    *)
(* next upload under that name.                                                 *)
C18_GrantsOnlyByShare ==
    /\ (Replied /\ ~(Op \in ShareOps /\ last.res.kind = "ok"))
          => access_control = pre.access_control
    /\ \A k \in Collections, key \in Keys :
          /\ upload_file_to_collection(k[1], k[1], k[2], key, InputA).access_control
                = access_control
          /\ remove_file_from_collection(k[1], k[1], k[2], key).access_control
                = access_control
    /\ (Op = "remove_file_from_collection" /\ last.res.kind = "ok"
            /\ IsEmpty(CalledCollection)) =>
          \A b \in Principals \ {last.call.owner} :
              LET g == Get(pre.access_control, <<b, CalledCollection>>)
              IN /\ Get(access_control, <<b, CalledCollection>>) = g
                 /\ Passes(b, CalledCollection) = IF g.some THEN UpTo(g.val) ELSE {}

C18_Witness ==
    /\ Op = "remove_file_from_collection"
    /\ last.res.kind = "ok"
    /\ last.res.val.some
    /\ IsEmpty(CalledCollection)
    /\ \E b \in Principals \ {last.call.owner} :
          /\ Get(access_control, <<b, CalledCollection>>) = Some("ReadWrite")
          /\ upload_file_to_collection(b, last.call.owner, last.call.name,
                                       last.call.key, InputA).res.kind = "ok"

(* the file keys stored under the collection in the value map *)
StoredKeys(key_id) == { x[2] : x \in { y \in DOMAIN mapkey_vals : y[1] = key_id } }

(* C19: a list reply for (owner, name) has one entry for each file key stored   *)
(* under (owner, name) and no other entry, in ascending order of the file      *)
(* keys, and each entry carries the ciphertext and the metadata stored under   *)
(* (owner, name, key), whatever the other collections hold.                     *)
C19_ListExactAscending ==
    (Op = "get_files_in_collection_with_metadata" /\ last.res.kind = "ok") =>
        LET l == last.res.val
        IN /\ { l[i][1] : i \in 1..Len(l) } = StoredKeys(CalledCollection)
           /\ Len(l) = Cardinality(StoredKeys(CalledCollection))
           /\ \A i, j \in 1..Len(l) : i < j => BlobLess(l[i][1], l[j][1])
           /\ \A i \in 1..Len(l) :
                 /\ l[i][2] = mapkey_vals[<<CalledCollection, l[i][1]>>]
                 /\ l[i][3] = file_metadata[<<last.call.owner, last.call.name, l[i][1]>>]

C19_Witness ==
    /\ Op = "get_files_in_collection_with_metadata"
    /\ last.res.kind = "ok"
    /\ Len(last.res.val) = 1
    /\ \E x \in DOMAIN mapkey_vals :
          /\ x[1] /= CalledCollection
          /\ x[1][1] = last.call.owner
          /\ x[2] = last.res.val[1][1]
          /\ mapkey_vals[x] /= last.res.val[1][2]

(* C20: get_encrypted_vetkey checks the caller before it suspends and not       *)
(* again: a suspended call can always complete, and it replies the key also    *)
(* when the owner has removed the caller's grant in the meantime; neither half *)
(* of the call writes to a map.                                                 *)
C20_CheckedOnceBeforeAwait ==
    /\ (Op = "get_encrypted_vetkey" /\ Replied) => Snapshot = pre
    /\ \A p \in pending :
          get_encrypted_vetkey_resume(p)
              = Reply(Ok([vetkey_for |-> p.key_id, caller |-> p.caller]))
    /\ (last = Idle /\ pending /= {}) => ENABLED VetkeyDone
    /\ (Op = "remove_user_from_collection" /\ last.res.kind = "ok") =>
          \A p \in pending :
              (p.caller = NamedPrincipal /\ p.key_id = CalledCollection) =>
                  /\ ensure_user_can_read(p.caller, p.key_id).kind = "err"
                  /\ get_encrypted_vetkey_resume(p).res.kind = "ok"

C20_Witness ==
    /\ Op = "get_encrypted_vetkey"
    /\ last.res.kind = "ok"
    /\ Caller /= last.call.owner
    /\ ensure_user_can_read(Caller, CalledCollection).kind = "err"
    /\ Has(users, "bob")
    /\ Snapshot = pre

====
